---- MODULE Spec2Model ----
(***************************************************************************)
(* Service lifecycle of podman/command/command.py (class PodmanCommand):   *)
(* start_service, wait_for_service, stop_service and the context manager   *)
(* service() that composes them, together with the child process and the   *)
(* monotonic clock they observe.                                           *)
(*                                                                         *)
(* Time is counted in units of check_interval (the sleep of one polling    *)
(* iteration); timeouts are counted in the same unit.                      *)
(***************************************************************************)
EXTENDS Integers, Sequences, FiniteSets, TLC

\* ---------------------------------------------------------------- bounds
MaxTime == 4            \* the clock stops advancing here
MaxTimeout == 2         \* largest timeout a caller passes
MaxStopCalls == 2       \* direct stop_service calls on one handle

\* ------------------------------------------------------------- constants
None == -1              \* Python's None for Optional[int] values
CheckInterval == 1      \* check_interval, the unit of time
SIGTERM == 15           \* Popen.terminate()
SIGKILL == 9            \* Popen.kill()

Platforms == {"Linux", "Darwin"}           \* platform.system()
Timeouts == {None} \cup (0..MaxTimeout)    \* Optional[int] timeout arguments
OwnExitCodes == {0, 1}                     \* exit statuses the service chooses itself
PingResults == {"true", "false", "APIError", "fatal"}
Callers == {"service", "direct"}

VARIABLES
    pc,            \* position of the calling thread
    caller,        \* "service": with cmd.service(...); "direct": start_service + stop_service
    platform,      \* platform.system()
    now,           \* time.monotonic()
    proc,          \* the child process and its Popen handle
    ping_timeout,  \* service(ping_timeout=...) -> wait_for_service(timeout=...)
    stop_timeout,  \* stop_service(timeout=...)
    start,         \* wait_for_service: start
    waitStart,     \* stop_service: the moment proc.wait(timeout) was entered
    site,          \* where the running stop_service was called from
    pending,       \* the exception being handled by the except clause of service()
    error,         \* the exception that left the call, if any
    waitResult,    \* outcome of wait_for_service
    stopRet,       \* value returned by the last stop_service
    yielded,       \* the handle has been yielded to the caller's block
    atCall,        \* the process as stop_service found it when called
    checkedAt,     \* the clock as the last evaluation of line 159 read it
    nPolls, nPings, nApiErr, lastPing, nSleeps,
    nStopCalls, nStopDone, nTerminate, nKill

vars == <<pc, caller, platform, now, proc, ping_timeout, stop_timeout, start,
          waitStart, site, pending, error, waitResult, stopRet, yielded, atCall,
          checkedAt, nPolls, nPings, nApiErr, lastPing, nSleeps,
          nStopCalls, nStopDone, nTerminate, nKill>>

waitVars == <<checkedAt, nPolls, nPings, nApiErr, lastPing, nSleeps>>
waitCnt == <<nPolls, nPings, nApiErr, lastPing, nSleeps>>
stopCnt == <<nStopCalls, nStopDone, nTerminate, nKill>>

\* ------------------------------------------------------------ exceptions
NoError == [kind |-> "none", arg |-> None]
Ready == [kind |-> "ready", arg |-> None]
PodmanError == [kind |-> "PodmanError", arg |-> None]
ServiceTimeout(t) == [kind |-> "ServiceTimeout", arg |-> t]
ServiceTerminated(c) == [kind |-> "ServiceTerminated", arg |-> c]
FatalPingError == [kind |-> "FatalPingError", arg |-> None]
CallerError == [kind |-> "CallerError", arg |-> None]

\* --------------------------------------------------- subprocess.Popen
NoProc == [state |-> "none", exitCode |-> None, returncode |-> None,
           sigterm |-> FALSE, sigkill |-> FALSE]

\* runner.run_raw(cmd, wait=False): a live child, not yet reaped
Spawn == [state |-> "alive", exitCode |-> None, returncode |-> None,
          sigterm |-> FALSE, sigkill |-> FALSE]

\* proc.poll(): reaps an exited child, returns returncode (None while alive)
Poll(p) == IF p.state = "exited" THEN [p EXCEPT !.returncode = p.exitCode] ELSE p

\* proc.terminate(): polls first; the signal reaches only a live child
Terminate(p) == IF p.state = "alive" THEN [p EXCEPT !.sigterm = TRUE] ELSE Poll(p)

\* proc.kill()
Kill(p) == IF p.state = "alive" THEN [p EXCEPT !.sigkill = TRUE] ELSE Poll(p)

\* exit statuses a live child can end with, given the signals sent to it
ExitChoices(p) == OwnExitCodes
                  \cup (IF p.sigterm THEN {-SIGTERM} ELSE {})
                  \cup (IF p.sigkill THEN {-SIGKILL} ELSE {})

\* Python truthiness of an Optional[int]: None and 0 are false
Truthy(t) == t # None /\ t # 0

\* line 159 giving the deadline one interval of grace
DeadlinePassedLate(timeout, t0, t) == Truthy(timeout) /\ t - t0 > timeout + CheckInterval

\* line 159 with the subtraction reversed: the deadline never passes
DeadlinePassedNever(timeout, t0, t) == Truthy(timeout) /\ t0 - t > timeout

\* wait_for_service line 159
DeadlinePassed(timeout, t0, t) == Truthy(timeout) /\ t - t0 > timeout

\* proc.wait(timeout) giving up although the child has already exited
WaitExpiredAnyway(p, timeout, t0, t) == timeout # None /\ t - t0 >= timeout

\* proc.wait(timeout=timeout) raises TimeoutExpired: the child has not exited
\* and the time allowed is used up
WaitExpired(p, timeout, t0, t) == p.state = "alive" /\ timeout # None /\ t - t0 >= timeout

\* line 163 with a test on truthiness: an exit with status 0 goes unnoticed
PollExitedTruthy(ret) == ret # None /\ ret # 0

\* line 163: ret is not None
PollExited(ret) == ret # None

\* the test of line 167 inverted
PingDispositionInverted(r) == CASE r = "true" -> "sleep"
                                [] r = "false" -> "break"
                                [] r = "APIError" -> "sleep"
                                [] OTHER -> "raise"

\* every exception of the ping swallowed
PingDispositionSwallowAll(r) == CASE r = "true" -> "break"
                                  [] OTHER -> "sleep"

\* the result of c.ping() ignored: any ping that returns ends the loop
PingDispositionFalseBreaks(r) == CASE r = "true" -> "break"
                                   [] r = "false" -> "break"
                                   [] r = "APIError" -> "sleep"
                                   [] OTHER -> "raise"

\* try/except around c.ping(), lines 166-170
PingDisposition(r) == CASE r = "true" -> "break"
                        [] r = "false" -> "sleep"
                        [] r = "APIError" -> "sleep"
                        [] OTHER -> "raise"

\* an except clause that names ServiceTimeout only
CaughtTimeoutOnly(e) == e.kind \in {"ServiceTimeout"}

\* except (errors.ServiceTimeout, errors.ServiceTerminated), line 201
Caught(e) == e.kind \in {"ServiceTimeout", "ServiceTerminated"}

\* ------------------------------------------------------------------ Init
Init ==
    /\ caller \in Callers
    /\ platform \in Platforms
    /\ ping_timeout \in (IF caller = "service" THEN Timeouts ELSE {None})
    /\ stop_timeout \in (IF caller = "service" THEN Timeouts ELSE {None})
    /\ pc = "start"
    /\ now = 0
    /\ proc = NoProc
    /\ start = 0
    /\ waitStart = 0
    /\ site = "none"
    /\ pending = NoError
    /\ error = NoError
    /\ waitResult = NoError
    /\ stopRet = None
    /\ yielded = FALSE
    /\ atCall = NoProc
    /\ checkedAt = 0
    /\ nPolls = 0 /\ nPings = 0 /\ nApiErr = 0 /\ lastPing = "none" /\ nSleeps = 0
    /\ nStopCalls = 0 /\ nStopDone = 0 /\ nTerminate = 0 /\ nKill = 0

\* --------------------------------------------------------- start_service
\* lines 103-106: not on Linux, PodmanError before anything is constructed
StartServiceUnsupported ==
    /\ pc = "start"
    /\ platform # "Linux"
    /\ pc' = "raised"
    /\ error' = PodmanError
    /\ UNCHANGED <<caller, platform, now, proc, ping_timeout, stop_timeout, start,
                   waitStart, site, pending, waitResult, stopRet, yielded, atCall,
                   waitVars, stopCnt>>

\* start_service without the platform test of line 103
StartServiceUnchecked ==
    /\ pc = "start"
    /\ proc' = Spawn
    /\ pc' = IF caller = "service" THEN "w_start" ELSE "idle"
    /\ UNCHANGED <<caller, platform, now, ping_timeout, stop_timeout, start,
                   waitStart, site, pending, error, waitResult, stopRet, yielded,
                   atCall, waitVars, stopCnt>>

\* lines 108-109: the child is spawned without waiting; service() goes on to
\* wait_for_service (line 200), a direct caller keeps the handle
StartService ==
    /\ pc = "start"
    /\ platform = "Linux"
    /\ proc' = Spawn
    /\ pc' = IF caller = "service" THEN "w_start" ELSE "idle"
    /\ UNCHANGED <<caller, platform, now, ping_timeout, stop_timeout, start,
                   waitStart, site, pending, error, waitResult, stopRet, yielded,
                   atCall, waitVars, stopCnt>>

\* ---------------------------------------------------------- stop_service
\* a call of stop_service(proc, timeout) from call site s
CallStop(s) ==
    /\ pc' = "s_terminate"
    /\ site' = s
    /\ atCall' = proc
    /\ nStopCalls' = nStopCalls + 1

\* stop_service opening with proc.kill() instead of proc.terminate()
StopTerminateKills ==
    /\ pc = "s_terminate"
    /\ proc' = Kill(proc)
    /\ nKill' = nKill + 1
    /\ waitStart' = now
    /\ pc' = "s_wait"
    /\ UNCHANGED <<caller, platform, now, ping_timeout, stop_timeout, start, site,
                   pending, error, waitResult, stopRet, yielded, atCall, waitVars,
                   nStopCalls, nStopDone, nTerminate>>

\* line 127: proc.terminate(), then proc.wait(timeout=timeout) is entered
StopTerminate ==
    /\ pc = "s_terminate"
    /\ proc' = Terminate(proc)
    /\ nTerminate' = nTerminate + 1
    /\ waitStart' = now
    /\ pc' = "s_wait"
    /\ UNCHANGED <<caller, platform, now, ping_timeout, stop_timeout, start, site,
                   pending, error, waitResult, stopRet, yielded, atCall, waitVars,
                   nStopCalls, nStopDone, nKill>>

\* service() without the raise of line 203: after the cleanup the generator
\* falls through to the yield
StopReturnNoReraise(ret) ==
    /\ stopRet' = ret
    /\ nStopDone' = nStopDone + 1
    /\ pc' = CASE site = "except" -> "yielded"
               [] site = "exit" -> "returned"
               [] OTHER -> "idle"
    /\ error' = error

\* line 133: return ret, back at the call site: line 203 re-raises the
\* exception being handled, line 206 ends service(), a direct caller goes on
StopReturn(ret) ==
    /\ stopRet' = ret
    /\ nStopDone' = nStopDone + 1
    /\ pc' = CASE site = "except" -> "raised"
               [] site = "exit" -> "returned"
               [] OTHER -> "idle"
    /\ error' = IF site = "except" THEN pending ELSE error

\* line 129: the child exited in time, wait returns its exit code
StopWaitExited ==
    /\ pc = "s_wait"
    /\ proc.state = "exited"
    /\ proc' = Poll(proc)
    /\ StopReturn(proc'.returncode)
    /\ UNCHANGED <<caller, platform, now, ping_timeout, stop_timeout, start,
                   waitStart, site, pending, waitResult, yielded, atCall, waitVars,
                   nStopCalls, nTerminate, nKill>>

\* lines 129-130: subprocess.TimeoutExpired
StopWaitExpired ==
    /\ pc = "s_wait"
    /\ WaitExpired(proc, stop_timeout, waitStart, now)
    /\ pc' = "s_kill"
    /\ UNCHANGED <<caller, platform, now, proc, ping_timeout, stop_timeout, start,
                   waitStart, site, pending, error, waitResult, stopRet, yielded,
                   atCall, waitVars, stopCnt>>

\* proc.kill() followed by return, without the second wait
StopKillNoWait ==
    /\ pc = "s_kill"
    /\ proc' = Kill(proc)
    /\ nKill' = nKill + 1
    /\ StopReturn(proc'.returncode)
    /\ UNCHANGED <<caller, platform, now, ping_timeout, stop_timeout, start,
                   waitStart, site, pending, waitResult, yielded, atCall, waitVars,
                   nStopCalls, nTerminate>>

\* the except clause of line 130 sending terminate a second time, not kill
StopKillTerminates ==
    /\ pc = "s_kill"
    /\ proc' = Terminate(proc)
    /\ nKill' = nKill + 1
    /\ pc' = "s_wait2"
    /\ UNCHANGED <<caller, platform, now, ping_timeout, stop_timeout, start,
                   waitStart, site, pending, error, waitResult, stopRet, yielded,
                   atCall, waitVars, nStopCalls, nStopDone, nTerminate>>

\* line 131: proc.kill()
StopKill ==
    /\ pc = "s_kill"
    /\ proc' = Kill(proc)
    /\ nKill' = nKill + 1
    /\ pc' = "s_wait2"
    /\ UNCHANGED <<caller, platform, now, ping_timeout, stop_timeout, start,
                   waitStart, site, pending, error, waitResult, stopRet, yielded,
                   atCall, waitVars, nStopCalls, nStopDone, nTerminate>>

\* line 132: proc.wait() without a timeout
StopWaitKilled ==
    /\ pc = "s_wait2"
    /\ proc.state = "exited"
    /\ proc' = Poll(proc)
    /\ StopReturn(proc'.returncode)
    /\ UNCHANGED <<caller, platform, now, ping_timeout, stop_timeout, start,
                   waitStart, site, pending, waitResult, yielded, atCall, waitVars,
                   nStopCalls, nTerminate, nKill>>

\* ------------------------------------------------------ wait_for_service
\* line 156: start = time.monotonic(); line 157 opens the client
WaitBegin ==
    /\ pc = "w_start"
    /\ start' = now
    /\ pc' = "w_check"
    /\ UNCHANGED <<caller, platform, now, proc, ping_timeout, stop_timeout,
                   waitStart, site, pending, error, waitResult, stopRet, yielded,
                   atCall, waitVars, stopCnt>>

\* exception e leaves wait_for_service inside service(), lines 199-203:
\* ServiceTimeout and ServiceTerminated are caught and stop_service is
\* called (line 202); anything else leaves service() at once
RaiseFromWait(e) ==
    /\ waitResult' = e
    /\ IF Caught(e)
       THEN /\ pending' = e
            /\ CallStop("except")
            /\ UNCHANGED error
       ELSE /\ pc' = "raised"
            /\ error' = e
            /\ UNCHANGED <<pending, site, atCall, nStopCalls>>

\* wait_for_service killing the child when it gives up
WaitTimedOutKills ==
    /\ pc = "w_check"
    /\ DeadlinePassed(ping_timeout, start, now)
    /\ checkedAt' = now
    /\ proc' = Kill(proc)
    /\ RaiseFromWait(ServiceTimeout(ping_timeout))
    /\ UNCHANGED <<caller, platform, now, ping_timeout, stop_timeout, start,
                   waitStart, stopRet, yielded, waitCnt, nStopDone, nTerminate,
                   nKill>>

\* lines 159-160
WaitTimedOut ==
    /\ pc = "w_check"
    /\ DeadlinePassed(ping_timeout, start, now)
    /\ checkedAt' = now
    /\ RaiseFromWait(ServiceTimeout(ping_timeout))
    /\ UNCHANGED <<caller, platform, now, proc, ping_timeout, stop_timeout, start,
                   waitStart, stopRet, yielded, waitCnt, nStopDone, nTerminate,
                   nKill>>

\* line 159, condition false
WaitNotTimedOut ==
    /\ pc = "w_check"
    /\ ~DeadlinePassed(ping_timeout, start, now)
    /\ checkedAt' = now
    /\ pc' = "w_poll"
    /\ UNCHANGED <<caller, platform, now, proc, ping_timeout, stop_timeout, start,
                   waitStart, site, pending, error, waitResult, stopRet, yielded,
                   atCall, waitCnt, stopCnt>>

\* the result of the poll ignored: the loop pings a child it saw exited
WaitPollExitedIgnored ==
    /\ pc = "w_poll"
    /\ PollExited(Poll(proc).returncode)
    /\ proc' = Poll(proc)
    /\ nPolls' = nPolls + 1
    /\ pc' = "w_ping"
    /\ UNCHANGED <<caller, platform, now, ping_timeout, stop_timeout, start,
                   waitStart, site, pending, error, waitResult, stopRet, yielded,
                   atCall, checkedAt, nPings, nApiErr, lastPing, nSleeps, stopCnt>>

\* lines 162-164: ret = proc.poll() is not None
WaitPollExited ==
    /\ pc = "w_poll"
    /\ PollExited(Poll(proc).returncode)
    /\ proc' = Poll(proc)
    /\ nPolls' = nPolls + 1
    /\ RaiseFromWait(ServiceTerminated(proc'.returncode))
    /\ UNCHANGED <<caller, platform, now, ping_timeout, stop_timeout, start,
                   waitStart, stopRet, yielded, checkedAt, nPings, nApiErr, lastPing,
                   nSleeps, nStopDone, nTerminate, nKill>>

\* lines 162-163: ret is None
WaitPollAlive ==
    /\ pc = "w_poll"
    /\ ~PollExited(Poll(proc).returncode)
    /\ proc' = Poll(proc)
    /\ nPolls' = nPolls + 1
    /\ pc' = "w_ping"
    /\ UNCHANGED <<caller, platform, now, ping_timeout, stop_timeout, start,
                   waitStart, site, pending, error, waitResult, stopRet, yielded,
                   atCall, checkedAt, nPings, nApiErr, lastPing, nSleeps, stopCnt>>

\* lines 166-170, one c.ping() with result r
Ping(r) ==
    /\ pc = "w_ping"
    /\ nPings' = nPings + 1
    /\ lastPing' = r
    /\ nApiErr' = IF r = "APIError" THEN nApiErr + 1 ELSE nApiErr
    /\ UNCHANGED <<caller, platform, now, proc, ping_timeout, stop_timeout, start,
                   waitStart, stopRet, checkedAt, nPolls, nSleeps, nStopDone, nTerminate,
                   nKill>>

\* lines 167-168 and 205: break, wait_for_service returns, the handle is yielded
WaitPingReady ==
    \E r \in PingResults :
        /\ PingDisposition(r) = "break"
        /\ Ping(r)
        /\ waitResult' = Ready
        /\ yielded' = TRUE
        /\ pc' = "yielded"
        /\ UNCHANGED <<site, pending, error, atCall, nStopCalls>>

\* lines 167-170: ping false, or APIError swallowed; on to the sleep
WaitPingNotReady ==
    \E r \in PingResults :
        /\ PingDisposition(r) = "sleep"
        /\ Ping(r)
        /\ pc' = "w_sleep"
        /\ UNCHANGED <<site, pending, error, waitResult, yielded, atCall, nStopCalls>>

\* line 167: any other exception leaves wait_for_service
WaitPingFatal ==
    \E r \in PingResults :
        /\ PingDisposition(r) = "raise"
        /\ Ping(r)
        /\ RaiseFromWait(FatalPingError)
        /\ UNCHANGED yielded

\* line 171: time.sleep(check_interval)
WaitSleep ==
    /\ pc = "w_sleep"
    /\ now + CheckInterval <= MaxTime
    /\ now' = now + CheckInterval
    /\ nSleeps' = nSleeps + 1
    /\ pc' = "w_check"
    /\ UNCHANGED <<caller, platform, proc, ping_timeout, stop_timeout, start,
                   waitStart, site, pending, error, waitResult, stopRet, yielded,
                   atCall, checkedAt, nPolls, nPings, nApiErr, lastPing, stopCnt>>

\* ------------------------------------------------- the caller of service()
\* service() without its line 206
BlockExitNoStop ==
    /\ pc = "yielded"
    /\ pc' = "returned"
    /\ UNCHANGED <<caller, platform, now, proc, ping_timeout, stop_timeout, start,
                   waitStart, site, pending, error, waitResult, stopRet, yielded,
                   atCall, waitVars, stopCnt>>

\* the with-block ends normally: the generator resumes after line 205 and
\* runs line 206
BlockExit ==
    /\ pc = "yielded"
    /\ CallStop("exit")
    /\ UNCHANGED <<caller, platform, now, proc, ping_timeout, stop_timeout, start,
                   waitStart, pending, error, waitResult, stopRet, yielded,
                   waitVars, nStopDone, nTerminate, nKill>>

\* the with-block raises: the exception is thrown into the generator at the
\* yield of line 205, which no try statement encloses, and leaves service()
BlockRaise ==
    /\ pc = "yielded"
    /\ pc' = "raised"
    /\ error' = CallerError
    /\ UNCHANGED <<caller, platform, now, proc, ping_timeout, stop_timeout, start,
                   waitStart, site, pending, waitResult, stopRet, yielded, atCall,
                   waitVars, stopCnt>>

\* a direct caller: cmd.stop_service(proc, timeout=t) on the handle it holds
DirectStop ==
    /\ pc = "idle"
    /\ nStopCalls < MaxStopCalls
    /\ \E t \in Timeouts : stop_timeout' = t
    /\ CallStop("direct")
    /\ UNCHANGED <<caller, platform, now, proc, ping_timeout, start, waitStart,
                   pending, error, waitResult, stopRet, yielded, waitVars,
                   nStopDone, nTerminate, nKill>>

\* ------------------------------------------------------------ environment
\* the child ends: by itself, or by a signal it was sent
ProcExit ==
    /\ proc.state = "alive"
    /\ \E c \in ExitChoices(proc) :
           proc' = [proc EXCEPT !.state = "exited", !.exitCode = c]
    /\ UNCHANGED <<pc, caller, platform, now, ping_timeout, stop_timeout, start,
                   waitStart, site, pending, error, waitResult, stopRet, yielded,
                   atCall, waitVars, stopCnt>>

\* time passes
Tick ==
    /\ now < MaxTime
    /\ now' = now + 1
    /\ UNCHANGED <<pc, caller, platform, proc, ping_timeout, stop_timeout, start,
                   waitStart, site, pending, error, waitResult, stopRet, yielded,
                   atCall, waitVars, stopCnt>>

Next ==
    \/ StartServiceUnsupported
    \/ StartService
    \/ WaitBegin
    \/ WaitTimedOut
    \/ WaitNotTimedOut
    \/ WaitPollExited
    \/ WaitPollAlive
    \/ WaitPingReady
    \/ WaitPingNotReady
    \/ WaitPingFatal
    \/ WaitSleep
    \/ BlockExit
    \/ BlockRaise
    \/ DirectStop
    \/ StopTerminate
    \/ StopWaitExited
    \/ StopWaitExpired
    \/ StopKill
    \/ StopWaitKilled
    \/ ProcExit
    \/ Tick

Spec == Init /\ [][Next]_vars

\* ------------------------------------------------- progress of the thread
\* The calling thread is the only thread: each statement it reaches
\* completes (every ping returns, every sleep ends), the clock moves while
\* it is blocked in proc.wait, and a child that was sent SIGKILL ends.  Time
\* passes only where the thread blocks on it: in time.sleep (line 171) and
\* in proc.wait (line 129).

WaitStep ==
    \/ WaitBegin
    \/ WaitTimedOut
    \/ WaitNotTimedOut
    \/ WaitPollExited
    \/ WaitPollAlive
    \/ WaitPingReady
    \/ WaitPingNotReady
    \/ WaitPingFatal
    \/ WaitSleep

StopStep ==
    \/ StopTerminate
    \/ StopWaitExited
    \/ StopWaitExpired
    \/ StopKill
    \/ StopWaitKilled

\* time passing while proc.wait(timeout=timeout) of line 129 blocks
WaitTick == pc = "s_wait" /\ Tick

\* SIGKILL cannot be ignored
KilledExit == proc.sigkill /\ ProcExit

LiveNext ==
    \/ StartServiceUnsupported
    \/ StartService
    \/ WaitStep
    \/ BlockExit
    \/ BlockRaise
    \/ DirectStop
    \/ StopStep
    \/ ProcExit
    \/ WaitTick

LiveSpec ==
    /\ Init
    /\ [][LiveNext]_vars
    /\ WF_vars(WaitStep)
    /\ WF_vars(StopStep)
    /\ WF_vars(WaitTick)
    /\ WF_vars(KilledExit)

TypeOK ==
    /\ pc \in {"start", "w_start", "w_check", "w_poll", "w_ping", "w_sleep",
               "yielded", "s_terminate", "s_wait", "s_kill", "s_wait2", "idle",
               "returned", "raised"}
    /\ now \in 0..MaxTime
    /\ proc.state \in {"none", "alive", "exited"}
    /\ site \in {"none", "except", "exit", "direct"}

\* ================================================================ claims
Finished == pc \in {"returned", "raised"}
WaitEnds == waitResult = NoError /\ waitResult' # NoError

\* C1: when the handle was yielded and the caller's block raises,
\* stop_service has run on the process by the time the exception leaves
\* service().
C1_StopBeforeCallerErrorPropagates ==
    (caller = "service" /\ pc = "raised" /\ error = CallerError) => nStopDone >= 1

\* C2: when wait_for_service fails with ServiceTimeout or ServiceTerminated,
\* stop_service is called exactly once, the handle is never yielded, nothing
\* propagates while the stop is running, and what propagates afterwards is
\* the failure of the wait, with its timeout / exit code payload.
C2_WaitFailureStopsThenReraises ==
    (caller = "service" /\ waitResult.kind \in {"ServiceTimeout", "ServiceTerminated"}) =>
        /\ ~yielded
        /\ nStopCalls = 1
        /\ site = "except"
        /\ waitResult.kind = "ServiceTimeout" => waitResult.arg = ping_timeout
        /\ waitResult.kind = "ServiceTerminated" => waitResult.arg = proc.exitCode
        /\ IF Finished
           THEN pc = "raised" /\ error = waitResult /\ nStopDone = 1 /\ nTerminate = 1
           ELSE error = NoError /\ nStopDone = 0

C2_Witness ==
    /\ caller = "service" /\ pc = "raised"
    /\ error = ServiceTerminated(1)
    /\ nStopDone = 1

\* C3: when the wait succeeded and the caller's block ends normally,
\* stop_service runs exactly once, after the block and before service()
\* returns; nothing is sent to the process while the block is running.
C3_StopOnceAfterBlock ==
    /\ pc = "yielded" => nStopCalls = 0 /\ nTerminate = 0 /\ nKill = 0
    /\ site = "exit" => yielded /\ waitResult = Ready /\ nStopCalls = 1
    /\ (caller = "service" /\ pc = "returned") =>
           /\ site = "exit"
           /\ nStopCalls = 1 /\ nStopDone = 1 /\ nTerminate = 1
           /\ error = NoError

C3_Witness ==
    /\ caller = "service" /\ pc = "returned"
    /\ nStopDone = 1 /\ stopRet = 0 /\ nKill = 0

\* C4: on every path out of service() on which start_service spawned a
\* process, stop_service has run on it, the path of a fatal ping error
\* included.
C4_ReleaseOnEveryExit ==
    (caller = "service" /\ Finished /\ proc.state # "none") => nStopDone >= 1

\* C5: with timeout = 0, or with a deadline that has already passed at the
\* first check, wait_for_service fails with ServiceTimeout at that check,
\* before any ping.
C5_ZeroOrElapsedTimeoutFailsFirst ==
    [][(/\ pc = "w_check" /\ nPolls = 0 /\ pc' # "w_check"
        /\ \/ ping_timeout = 0
           \/ ping_timeout # None /\ now - start > ping_timeout)
       => (waitResult' = ServiceTimeout(ping_timeout) /\ nPings' = 0)]_vars

\* C6 as stated: whenever wait_for_service fails with the process having
\* exited before any ping succeeded, it fails with
\* ServiceTerminated(the exit code of the process).
C6_ExitAlwaysReportedAsTerminated ==
    [][(WaitEnds /\ proc.state = "exited" /\ waitResult' # Ready)
       => waitResult' = ServiceTerminated(proc.exitCode)]_vars

\* C6 amended: whenever the poll of wait_for_service finds the process
\* exited, the wait fails in that iteration, without pinging, with
\* ServiceTerminated(code), code being the status the process exited with;
\* and ServiceTerminated is raised for an exited process only, with that code.
C6_PolledExitReportedWithExitCode ==
    /\ [][(pc = "w_poll" /\ proc.state = "exited" /\ pc' # "w_poll")
          => (/\ waitResult' = ServiceTerminated(proc.exitCode)
              /\ nPings' = nPings
              /\ proc'.returncode = proc.exitCode)]_vars
    /\ [](waitResult.kind = "ServiceTerminated" =>
              /\ proc.state = "exited"
              /\ waitResult.arg = proc.exitCode
              /\ waitResult.arg # None
              /\ lastPing # "true")

C6_Witness ==
    /\ waitResult = ServiceTerminated(0)
    /\ proc.exitCode = 0
    /\ nPings = 1

\* C7: when pings 1..N-1 fail with APIError and ping N succeeds,
\* wait_for_service returns successfully after exactly N pings and N-1
\* sleeps: no sleep follows the successful ping.
C7_ReadyAfterNPingsAndNMinus1Sleeps ==
    (lastPing = "true" /\ nApiErr = nPings - 1) =>
        /\ waitResult = Ready
        /\ yielded
        /\ nSleeps = nPings - 1
        /\ nPolls = nPings

C7_Witness ==
    /\ waitResult = Ready
    /\ nPings = 3 /\ nApiErr = 2 /\ nSleeps = 2

\* C8: only APIError is swallowed; any other ping failure leaves
\* wait_for_service in the iteration of that ping, with no sleep, poll or
\* ping after it.
C8_OnlyApiErrorSwallowed ==
    /\ lastPing = "fatal" =>
           /\ waitResult = FatalPingError
           /\ pc = "raised" /\ error = FatalPingError
           /\ nSleeps = nPings - 1
           /\ nPolls = nPings
    /\ waitResult = FatalPingError => lastPing = "fatal"
    /\ (lastPing = "APIError" /\ waitResult = NoError) =>
           pc \in {"w_sleep", "w_check", "w_poll", "w_ping"}

C8_Witness ==
    /\ lastPing = "fatal" /\ pc = "raised"
    /\ nPings = 2 /\ nApiErr = 1 /\ nSleeps = 1

\* C9: the value stop_service returns is the exit code of the process, which
\* has exited, on the graceful path (first wait) and on the forceful path
\* (second wait).
C9_StopReturnsExitCode ==
    nStopDone > 0 =>
        /\ proc.state = "exited"
        /\ stopRet = proc.exitCode
        /\ stopRet = proc.returncode
        /\ stopRet # None

C9_Witness ==
    /\ nStopDone > 0
    /\ nKill = 1
    /\ stopRet = -SIGKILL

\* C10: stop_service called on a process that has already exited returns
\* the exit code the process exited with, sends no kill, raises nothing and
\* leaves the recorded exit code as it is.
C10_StopIdempotentOnExited ==
    atCall.state = "exited" =>
        /\ proc.state = "exited"
        /\ proc.exitCode = atCall.exitCode
        /\ proc.returncode \in {None, atCall.exitCode}
        /\ atCall.returncode # None => proc.returncode = atCall.returncode
        /\ pc \notin {"s_kill", "s_wait2"}
        /\ proc.sigkill = atCall.sigkill /\ proc.sigterm = atCall.sigterm
        /\ nStopDone = nStopCalls => stopRet = atCall.exitCode
        /\ caller = "direct" => error = NoError

C10_Witness ==
    /\ caller = "direct"
    /\ nStopCalls = 2 /\ nStopDone = 2
    /\ atCall.returncode = -SIGTERM
    /\ stop_timeout = 0
    /\ stopRet = -SIGTERM

InWait == pc \in {"w_start", "w_check", "w_poll", "w_ping", "w_sleep"}
InStop == pc \in {"s_terminate", "s_wait", "s_kill", "s_wait2"}

\* C11: off Linux start_service fails with the platform error before
\* anything is spawned: no process exists afterwards, and service() neither
\* polls, pings, yields nor stops anything.
C11_NoSpawnOffLinux ==
    platform # "Linux" =>
        /\ proc = NoProc
        /\ pc \in {"start", "raised"}
        /\ pc = "raised" => error = PodmanError
        /\ waitResult = NoError /\ ~yielded
        /\ nPolls = 0 /\ nPings = 0 /\ nSleeps = 0
        /\ nStopCalls = 0 /\ nTerminate = 0 /\ nKill = 0

C11_Witness ==
    /\ caller = "service" /\ platform = "Darwin"
    /\ pc = "raised" /\ error = PodmanError

\* C12 as stated: with a timeout configured, wait_for_service never returns
\* success at a moment when the time elapsed since the call began exceeds
\* the timeout.
C12_NoSuccessPastDeadline ==
    [][(WaitEnds /\ waitResult' = Ready /\ Truthy(ping_timeout))
       => now' - start <= ping_timeout]_vars

\* C12 amended: wait_for_service pings, and returns success, only in an
\* iteration whose deadline check of line 159 did not fire: the timeout is
\* None or 0, or the time elapsed when that check read the clock did not
\* exceed the timeout.
C12_SuccessOnlyAfterPassedCheck ==
    (waitResult = Ready \/ pc \in {"w_poll", "w_ping"}) =>
        \/ ping_timeout \in {None, 0}
        \/ checkedAt - start <= ping_timeout

C12_Witness ==
    /\ waitResult = Ready
    /\ ping_timeout = 1
    /\ checkedAt - start = 1
    /\ nPings = 2

\* C13 as stated: wait_for_service never returns success in a state where
\* the process is dead, also when the process exits between the poll and
\* the ping of one iteration.
C13_NoSuccessOnceExited ==
    [][(WaitEnds /\ waitResult' = Ready) => proc'.state = "alive"]_vars

\* C13 amended: in every iteration the poll precedes the ping; a poll that
\* finds the process exited ends the wait with ServiceTerminated without
\* that iteration's ping; success is returned only in an iteration whose
\* poll found the process still running.
C13_SuccessOnlyAfterPollFoundAlive ==
    /\ [][(pc = "w_poll" /\ proc.state = "exited" /\ pc' # "w_poll")
          => (/\ waitResult'.kind = "ServiceTerminated"
              /\ nPings' = nPings /\ lastPing' = lastPing)]_vars
    /\ [][(WaitEnds /\ waitResult' = Ready)
          => (/\ pc = "w_ping"
              /\ proc'.returncode = None
              /\ nPolls' = nPings')]_vars
    /\ [](pc = "w_ping" => proc.returncode = None /\ nPolls = nPings + 1)

C13_Witness ==
    /\ waitResult = Ready /\ pc = "yielded"
    /\ nPolls = 2 /\ nPings = 2
    /\ proc.returncode = None

\* C14: in every iteration, if a timeout is set and the elapsed time exceeds
\* it, the deadline check ends the wait with ServiceTimeout(timeout), also
\* when the process has exited, and that iteration neither polls nor pings.
C14_DeadlineCheckedFirst ==
    [][(/\ pc = "w_check" /\ pc' # "w_check"
        /\ ping_timeout # None /\ now - start > ping_timeout)
       => (/\ waitResult' = ServiceTimeout(ping_timeout)
           /\ nPolls' = nPolls /\ nPings' = nPings)]_vars

\* C15: stop_service sends terminate first, always; it sends kill only after
\* the first wait timed out with the process still running, hence never
\* without a timeout; the wait after a kill ends only with the exit of the
\* process; one terminate and at most one kill are sent per call.
C15_StopEscalatesInOrder ==
    /\ [](pc = "s_terminate" => nTerminate = nStopCalls - 1)
    /\ []((pc # "s_terminate") => nTerminate = nStopCalls)
    /\ [](pc \in {"s_kill", "s_wait2"} =>
              stop_timeout # None /\ now - waitStart >= stop_timeout)
    /\ [][(pc = "s_terminate" /\ pc' # "s_terminate")
          => (/\ pc' = "s_wait"
              /\ nTerminate' = nTerminate + 1 /\ nKill' = nKill
              /\ proc.state = "alive" => proc'.sigterm /\ ~proc'.sigkill)]_vars
    /\ [][(pc' = "s_kill" /\ pc # "s_kill")
          => (pc = "s_wait" /\ proc.state = "alive")]_vars
    /\ [][nKill' # nKill
          => (pc = "s_kill" /\ pc' = "s_wait2" /\ nKill' = nKill + 1)]_vars
    /\ [][(pc = "s_wait2" /\ pc' # "s_wait2")
          => (proc.state = "exited" /\ ~InStop' /\ nStopDone' = nStopDone + 1)]_vars

C15_Witness ==
    /\ nStopDone = 1 /\ nTerminate = 1 /\ nKill = 1
    /\ stop_timeout = 1
    /\ proc.sigterm /\ proc.sigkill

\* C16: in a session of service() the process is started before any
\* readiness check; the wait produces one outcome (ready, ServiceTimeout,
\* ServiceTerminated or a fatal ping error) and polls and pings no more once
\* it has; after stop_service has run nothing more is done to the handle.
C16_OneOutcomeThenInert ==
    /\ []((InWait \/ nPolls > 0 \/ nPings > 0) => proc.state # "none")
    /\ []((caller = "service" /\ (yielded \/ InStop \/ (Finished /\ proc.state # "none")))
              => waitResult.kind \in {"ready", "ServiceTimeout", "ServiceTerminated",
                                      "FatalPingError"})
    /\ [](InWait => waitResult = NoError)
    /\ [][waitResult # NoError
          => (waitResult' = waitResult /\ nPolls' = nPolls /\ nPings' = nPings)]_vars
    /\ [][(caller = "service" /\ nStopDone >= 1)
          => (/\ proc' = proc
              /\ nStopCalls' = nStopCalls /\ nTerminate' = nTerminate
              /\ nKill' = nKill /\ nPolls' = nPolls)]_vars

C16_Witness ==
    /\ caller = "service" /\ pc = "raised"
    /\ waitResult.kind = "ServiceTimeout"
    /\ nStopDone = 1 /\ nPings = 2

\* C19: success is returned only in an iteration whose ping returned true; a
\* ping that returns false is followed by the sleep, the deadline check and
\* the poll before the next ping.
C19_FalsePingMeansNotReady ==
    /\ waitResult = Ready => lastPing = "true"
    /\ lastPing = "false" =>
           waitResult.kind \in {"none", "ServiceTimeout", "ServiceTerminated"}
    /\ pc = "w_sleep" => nSleeps = nPings - 1 /\ nPolls = nPings
    /\ pc = "w_check" => nSleeps = nPings /\ nPolls = nPings
    /\ pc = "w_poll" => nSleeps = nPings /\ nPolls = nPings /\ checkedAt >= start + nSleeps
    /\ pc = "w_ping" => nSleeps = nPings /\ nPolls = nPings + 1

C19_Witness ==
    /\ waitResult = Ready
    /\ nPings = 3 /\ nApiErr = 0 /\ nSleeps = 2

\* C20: wait_for_service only polls the handle: no terminate, kill or wait
\* before stop_service is called, and no step of the wait changes whether
\* the process runs, so a process alive at ServiceTimeout is still alive
\* when stop_service starts.
C20_WaitLeavesProcessAlone ==
    /\ []((caller = "service" /\ nStopCalls = 0) =>
              /\ nTerminate = 0 /\ nKill = 0
              /\ ~proc.sigterm /\ ~proc.sigkill)
    /\ [][(InWait /\ pc' # pc)
          => (/\ proc'.state = proc.state /\ proc'.exitCode = proc.exitCode
              /\ proc'.sigterm = proc.sigterm /\ proc'.sigkill = proc.sigkill
              /\ nTerminate' = nTerminate /\ nKill' = nKill)]_vars

C20_Witness ==
    /\ waitResult.kind = "ServiceTimeout"
    /\ pc = "s_terminate"
    /\ proc.state = "alive" /\ proc.returncode = None
    /\ nPolls >= 1

\* C17: with a positive timeout, every ping returning and the clock
\* advancing with each sleep, wait_for_service eventually ends with one of
\* its outcomes; without a timeout it never gives up by itself: as long as
\* the process runs and no ping succeeds or fails fatally the loop goes on.
C17_WaitEndsOnlyWithTimeout ==
    /\ (pc = "w_start" /\ ping_timeout # None /\ ping_timeout > 0)
           ~> (waitResult.kind \in {"ready", "ServiceTimeout", "ServiceTerminated",
                                    "FatalPingError"})
    /\ [][(WaitEnds /\ ping_timeout = None)
          => (\/ waitResult' = Ready /\ lastPing' = "true"
              \/ waitResult' = FatalPingError /\ lastPing' = "fatal"
              \/ waitResult'.kind = "ServiceTerminated" /\ proc.state = "exited")]_vars

C17_Witness ==
    /\ waitResult = ServiceTimeout(MaxTimeout)
    /\ nPings = MaxTimeout + 1 /\ nApiErr = MaxTimeout + 1
    /\ nSleeps = MaxTimeout + 1
    /\ atCall.state = "alive"

\* C18: given that a killed process ends, a stop_service call with a
\* bounded timeout (one the clock of the model can run out) eventually
\* returns the exit code of the process and leaves it exited, whether or not
\* the process reacts to terminate; nothing is raised while it runs.
C18_BoundedStopReturns ==
    /\ (pc = "s_terminate" /\ stop_timeout # None /\ now + stop_timeout <= MaxTime)
           ~> (/\ ~InStop /\ nStopDone = nStopCalls
               /\ proc.state = "exited"
               /\ stopRet = proc.exitCode /\ stopRet # None)
    /\ [](InStop => error = NoError)
    /\ [](site = "direct" => error = NoError)

C18_Witness ==
    /\ nStopDone = 1 /\ nKill = 1
    /\ stop_timeout = MaxTimeout
    /\ now - waitStart = MaxTimeout
    /\ stopRet = -SIGKILL
    /\ proc.state = "exited"

====
